---- MODULE Spec2Model ----
(***************************************************************************)
(* Model of the matching engine of spotify_works_matcher.py:               *)
(* WorkMatcher._normalize_title, WorkMatcher.calculate_title_similarity    *)
(* and WorkMatcher.match_track, with the MLC lookups it calls.             *)
(*                                                                         *)
(* Strings are sequences of one-character strings.  Floating point values  *)
(* (similarity, confidence) are exact rationals <<num, den>>, den > 0; the *)
(* values compared here differ by far more than one unit of rounding.      *)
(***************************************************************************)
EXTENDS Integers, Sequences, FiniteSets, TLC

(***************************************************************************)
(* Characters and strings                                                  *)
(***************************************************************************)

\* the characters matched by \s and split on by str.split()
Whitespace == {" ", "\t", "\n"}

UpperCase == <<"A","B","C","D","E","F","G","H","I","J","K","L","M",
               "N","O","P","Q","R","S","T","U","V","W","X","Y","Z">>

LowerCase == <<"a","b","c","d","e","f","g","h","i","j","k","l","m",
               "n","o","p","q","r","s","t","u","v","w","x","y","z">>

\* str.lower() on one character
LowerChar(c) ==
    IF \E n \in 1..26 : UpperCase[n] = c
    THEN LowerCase[CHOOSE n \in 1..26 : UpperCase[n] = c]
    ELSE c

\* str.lower()
Lower(s) == [n \in 1..Len(s) |-> LowerChar(s[n])]

\* first position q >= p that is past the end of s or holds no whitespace
\* (the end of a greedy \s* that starts at p)
SkipWs(s, p) ==
    CHOOSE q \in p..(Len(s) + 1) :
        /\ (q = Len(s) + 1 \/ s[q] \notin Whitespace)
        /\ \A r \in p..(q - 1) : s[r] \in Whitespace

\* first position q >= p that is past the end of s or holds a newline
\* (the end of a greedy .* that starts at p: '.' matches no newline)
LineEnd(s, p) ==
    CHOOSE q \in p..(Len(s) + 1) :
        /\ (q = Len(s) + 1 \/ s[q] = "\n")
        /\ \A r \in p..(q - 1) : s[r] # "\n"

\* the literal lit occurs in s at position p
LitAt(s, p, lit) ==
    /\ p + Len(lit) - 1 <= Len(s)
    /\ SubSeq(s, p, p + Len(lit) - 1) = lit

(***************************************************************************)
(* WorkMatcher._normalize_title                                            *)
(***************************************************************************)

\* the list `patterns`, in order:
\*   \s*\(.*?\)\s*   \s*\[.*?\]\s*   \s*-\s*remaster.*   \s*-\s*remix.*
\*   \s*-\s*live.*   \s*feat\..*     \s*ft\..*
patterns ==
    << [kind |-> "span", open |-> "(", close |-> ")"],
       [kind |-> "span", open |-> "[", close |-> "]"],
       [kind |-> "dash", word |-> <<"r","e","m","a","s","t","e","r">>],
       [kind |-> "dash", word |-> <<"r","e","m","i","x">>],
       [kind |-> "dash", word |-> <<"l","i","v","e">>],
       [kind |-> "word", word |-> <<"f","e","a","t",".">>],
       [kind |-> "word", word |-> <<"f","t",".">>] >>

\* end (exclusive) of the match of a span pattern  \s* open .*? close \s*
\* that starts at p, 0 when there is none
SpanEnd(pat, s, p) ==
    LET q == SkipWs(s, p)
        closes == {r \in (q + 1)..Len(s) :
                      /\ s[r] = pat.close
                      /\ \A t \in (q + 1)..(r - 1) : s[t] \notin {pat.close, "\n"}}
    IN  IF q <= Len(s) /\ s[q] = pat.open /\ closes # {}
        THEN SkipWs(s, (CHOOSE r \in closes : TRUE) + 1)
        ELSE 0

\* end (exclusive) of the match of  \s*-\s* word .*  that starts at p, or 0
DashEnd(pat, s, p) ==
    LET q == SkipWs(s, p)
        r == SkipWs(s, q + 1)
    IN  IF q <= Len(s) /\ s[q] = "-" /\ LitAt(s, r, pat.word)
        THEN LineEnd(s, r + Len(pat.word))
        ELSE 0

\* end (exclusive) of the match of  \s* word .*  that starts at p, or 0
WordEnd(pat, s, p) ==
    LET q == SkipWs(s, p)
    IN  IF LitAt(s, q, pat.word)
        THEN LineEnd(s, q + Len(pat.word))
        ELSE 0

\* end (exclusive) of the match of pattern pat anchored at p, or 0
MatchEnd(pat, s, p) ==
    CASE pat.kind = "span" -> SpanEnd(pat, s, p)
      [] pat.kind = "dash" -> DashEnd(pat, s, p)
      [] pat.kind = "word" -> WordEnd(pat, s, p)

RECURSIVE ReSub(_, _, _)
\* re.sub(pattern, '', s) from position pos on: every leftmost
\* non-overlapping match is deleted
ReSub(pat, s, pos) ==
    LET starts == {p \in pos..Len(s) : MatchEnd(pat, s, p) # 0}
    IN  IF starts = {}
        THEN SubSeq(s, pos, Len(s))
        ELSE LET p == CHOOSE x \in starts : \A y \in starts : x <= y
             IN  SubSeq(s, pos, p - 1) \o ReSub(pat, s, MatchEnd(pat, s, p))

RECURSIVE ApplyPatterns(_, _)
\* the loop `for pattern in patterns: title = re.sub(...)`, from pattern k on
ApplyPatterns(s, k) ==
    IF k > Len(patterns) THEN s
    ELSE ApplyPatterns(ReSub(patterns[k], s, 1), k + 1)

RECURSIVE SplitJoin(_, _)
\* ' '.join(s.split()) from position pos on
SplitJoin(s, pos) ==
    LET b == SkipWs(s, pos)
        ends == {q \in b..(Len(s) + 1) :
                     /\ (q = Len(s) + 1 \/ s[q] \in Whitespace)
                     /\ \A r \in b..(q - 1) : s[r] \notin Whitespace}
        e == CHOOSE q \in ends : TRUE
        rest == SplitJoin(s, e)
    IN  IF b > Len(s) THEN <<>>
        ELSE IF rest = <<>> THEN SubSeq(s, b, e - 1)
        ELSE SubSeq(s, b, e - 1) \o <<" ">> \o rest

_normalize_title(title) == SplitJoin(ApplyPatterns(Lower(title), 1), 1)

(***************************************************************************)
(* difflib.SequenceMatcher(None, a, b).ratio(), no junk (len < 200)        *)
(***************************************************************************)

RECURSIVE CommonRun(_, _, _, _, _, _)
\* length of the longest common run a[i..] = b[j..] inside a[..ahi], b[..bhi]
CommonRun(a, b, i, j, ahi, bhi) ==
    IF i > ahi \/ j > bhi \/ a[i] # b[j] THEN 0
    ELSE 1 + CommonRun(a, b, i + 1, j + 1, ahi, bhi)

\* find_longest_match(alo, ahi, blo, bhi), bounds inclusive: <<i, j, k>> with
\* k maximal, then i minimal, then j minimal; <<alo, blo, 0>> when none
find_longest_match(a, b, alo, ahi, blo, bhi) ==
    LET blocks == {<<i, j, CommonRun(a, b, i, j, ahi, bhi)>> :
                       <<i, j>> \in (alo..ahi) \X (blo..bhi)}
        Better(x, y) ==
            \/ x[3] > y[3]
            \/ x[3] = y[3] /\ x[1] < y[1]
            \/ x[3] = y[3] /\ x[1] = y[1] /\ x[2] <= y[2]
        best == CHOOSE x \in blocks : \A y \in blocks : Better(x, y)
    IN  IF best[3] = 0 THEN <<alo, blo, 0>> ELSE best

RECURSIVE MatchedChars(_, _, _, _, _, _)
\* sum of the sizes of get_matching_blocks() within a[alo..ahi], b[blo..bhi]
MatchedChars(a, b, alo, ahi, blo, bhi) ==
    IF alo > ahi \/ blo > bhi THEN 0
    ELSE LET m == find_longest_match(a, b, alo, ahi, blo, bhi)
             i == m[1]
             j == m[2]
             k == m[3]
         IN  IF k = 0 THEN 0
             ELSE k + MatchedChars(a, b, alo, i - 1, blo, j - 1)
                    + MatchedChars(a, b, i + k, ahi, j + k, bhi)

\* ratio() counting each matched character once
ratio_SingleCount(a, b) ==
    IF Len(a) + Len(b) = 0 THEN <<1, 1>>
    ELSE <<MatchedChars(a, b, 1, Len(a), 1, Len(b)), Len(a) + Len(b)>>

\* _calculate_ratio(matches, length): 2.0 * matches / length, 1.0 if length = 0
ratio(a, b) ==
    IF Len(a) + Len(b) = 0 THEN <<1, 1>>
    ELSE <<2 * MatchedChars(a, b, 1, Len(a), 1, Len(b)), Len(a) + Len(b)>>

\* calculate_title_similarity comparing the titles as given
calculate_title_similarity_NoNormalize(title1, title2) == ratio(title1, title2)

calculate_title_similarity(title1, title2) ==
    ratio(_normalize_title(title1), _normalize_title(title2))

(***************************************************************************)
(* Exact rationals <<num, den>>, den > 0, standing for Python floats       *)
(***************************************************************************)

RatLess(x, y) == x[1] * y[2] < y[1] * x[2]

RatEq(x, y) == x[1] * y[2] = y[1] * x[2]

RatGeq(x, y) == ~RatLess(x, y)

RatMul(x, y) == <<x[1] * y[1], x[2] * y[2]>>

(***************************************************************************)
(* Python values                                                           *)
(***************************************************************************)

\* Python's None, and a key that a payload dict does not have
None == <<"None">>

Absent == <<"Absent">>

\* truth value of an Optional[str] / List: None and empty are false
Truthy(v) == v # None /\ v # Absent /\ v # <<>>

\* dict.get(key): None for a missing key
Get(v) == IF v = Absent THEN None ELSE v

\* dict.get(key, default)
GetDefault(v, default) == IF v = Absent THEN default ELSE v

\* str(v) for a string or None
Str(v) == IF v = None THEN <<"N","o","n","e">> ELSE v

\* d[key] = value on a dict modelled as a function
DictSet(d, key, value) ==
    [x \in DOMAIN d \cup {key} |-> IF x = key THEN value ELSE d[x]]

EmptyDict == [x \in {} |-> None]

TITLE_MATCH_THRESHOLD == <<85, 100>>

(***************************************************************************)
(* MLCClient                                                               *)
(***************************************************************************)

\* search_by_isrc: the works of the response, [] when the request raised
search_by_isrc(outcome) ==
    IF outcome.status = "ok" THEN outcome.works ELSE <<>>

\* search_by_title without response.raise_for_status()
search_by_title_NoRaiseForStatus(outcome) == outcome.works

\* search_by_title: the works of the response, [] when the request raised
search_by_title(outcome) ==
    IF outcome.status = "ok" THEN outcome.works ELSE <<>>

\* parse_work whose work_id falls back to the title instead of ""
parse_work_TitleAsId(raw_work) ==
    [work_id    |-> Str(IF Truthy(Get(raw_work.property_id)) THEN raw_work.property_id
                        ELSE IF Truthy(Get(raw_work.id)) THEN raw_work.id
                        ELSE GetDefault(raw_work.work_id, GetDefault(raw_work.title, <<>>))),
     title      |-> GetDefault(raw_work.title, <<>>),
     source     |-> "MLC",
     iswc       |-> Get(raw_work.iswc),
     writers    |-> <<>>,
     publishers |-> <<>>,
     raw_data   |-> raw_work]

\* parse_work for a payload without writers, authors and publishers
parse_work(raw_work) ==
    [work_id    |-> Str(IF Truthy(Get(raw_work.property_id)) THEN raw_work.property_id
                        ELSE IF Truthy(Get(raw_work.id)) THEN raw_work.id
                        ELSE GetDefault(raw_work.work_id, <<>>)),
     title      |-> GetDefault(raw_work.title, <<>>),
     source     |-> "MLC",
     iswc       |-> Get(raw_work.iswc),
     writers    |-> <<>>,
     publishers |-> <<>>,
     raw_data   |-> raw_work]

(***************************************************************************)
(* Inputs: the recordings and the payloads the MLC API may return          *)
(***************************************************************************)

\* longest candidate list one lookup returns
MaxCands == 2

Melody == <<"M","e","l","o","d","y">>

MelodyLive == <<"M","e","l","o","d","y"," ","(","L","i","v","e",")">>

Melodys == <<"m","e","l","o","d","y","s">>

Melodyne == <<"M","e","l","o","d","y","n","e">>

Other == <<"O","t","h","e","r">>

CodeU1 == <<"U","1">>

CodeX9 == <<"X","9">>

W1 == <<"w","1">>

W2 == <<"w","2">>

W3 == <<"w","3">>

Ann == <<"A","n","n">>

Track(isrc, artists) ==
    [track_id |-> <<"t","1">>, title |-> Melody, artists |-> artists, isrc |-> isrc]

TrackPool == {Track(i, a) : i \in {None, <<>>, CodeU1}, a \in {<<>>, <<Ann>>}}

Raw(property_id, id, work_id, title, isrc) ==
    [property_id |-> property_id, id |-> id, work_id |-> work_id,
     title |-> title, iswc |-> Absent, isrc |-> isrc]

RawPool ==
    { Raw(Absent, W1, Absent, MelodyLive, CodeU1),   \* same code, similarity 1
      Raw(W1, Absent, Absent, Other, CodeX9),        \* work w1 again, other code
      Raw(Absent, Absent, W2, Melodys, Absent),      \* no code, similarity 12/13
      Raw(W3, Absent, Absent, Melodyne, CodeU1),     \* similarity 12/14
      Raw(Absent, Absent, Absent, Melody, Absent),   \* no identifier at all
      Raw(Absent, Absent, Absent, Melodys, Absent),  \* no identifier, other title
      Raw(Absent, W2, Absent, None, Absent) }        \* "title": null

SeqsUpTo(S, n) == UNION {[1..k -> S] : k \in 0..n}

\* what one POST to the search endpoint can do
Outcomes ==
    {[status |-> "error", works |-> <<>>]} \cup
    {[status |-> "ok", works |-> w] : w \in SeqsUpTo(RawPool, MaxCands)}

(***************************************************************************)
(* WorkMatcher.match_track                                                 *)
(***************************************************************************)

VARIABLES
    track,        \* the SpotifyTrack being matched
    pc,           \* position in match_track
    matches,      \* local list `matches`
    works_dict,   \* local dict `works_dict`
    mlc_works,    \* local list `mlc_works` (the list being iterated)
    cand,         \* index in mlc_works of the next raw_work of the for loop
    calls,        \* the lookups made so far, with what they returned
    mlc           \* what a POST to the MLC search endpoint can do in this run

\* WorkMatcher.match_all_tracks
VARIABLES
    tracks,       \* parameter `tracks`
    idx,          \* index in tracks of the track of the current iteration
    bpc,          \* position in match_all_tracks
    all_matches,  \* local list `all_matches`
    all_works,    \* local dict `all_works`
    returns       \* what the calls of match_track returned, in call order

\* the loop of test_title_normalization (scripts/test_tool.py)
VARIABLES
    tpc,          \* position in the loop body
    tc_title1,    \* first title of the test case
    tc_title2,    \* second title of the test case
    tc_similarity,  \* local `similarity`
    tc_normalized1, \* local `normalized1`
    tc_normalized2  \* local `normalized2`

\* SpotifyTrack.duration_seconds, read as in test_spotify_track_creation
VARIABLES
    dpc,              \* "created": the track exists; "read": the property was read
    duration_ms,      \* field duration_ms of the track
    duration_seconds  \* value the property returned

\* the loop of test_url_extraction (scripts/test_tool.py)
VARIABLES
    upc,          \* "url": before the call; "extracted": after it
    url,          \* the URL of the test case
    extracted_id  \* local `extracted_id`

\* fetch_all_works and make_request_with_retry
\* (scripts/fetch_black17_publisher_works.py)
VARIABLES
    fpc,            \* position: "loop", "post", "got", "returned"
    page,           \* local `page` of fetch_all_works
    fetched_works,  \* local list `all_works` of fetch_all_works
    seen_ids,       \* local set `seen_ids`
    total_from_api, \* local `total_from_api`
    response_data,  \* what make_request_with_retry returned
    attempt,        \* loop variable of make_request_with_retry
    backoff,        \* local `backoff`, in seconds
    responses,      \* outcome of each request.post of the current call
    sleeps,         \* argument of each time.sleep of the current call
    http            \* what a POST to the publisher endpoint can do in this run

\* process_artists_batch (utils/batch_process.py)
VARIABLES
    ppc,          \* position: "loop", "summary", "exited"
    artist_urls,  \* local list `artist_urls`
    run_i,        \* loop variable `i` of the for loop
    results,      \* local list `results`
    successful,   \* the count printed as "Successful"
    failed        \* the count printed as "Failed"

\* the opportunity assessment of generate_ar_report
VARIABLES
    rpc,              \* "analysed": counts and names known; "scored": assessed
    total_tracks,     \* local `total_tracks`
    registered_count, \* local `registered_count`
    pub_names,        \* the values `pub_name` takes in the loop over works_data
    has_major,        \* local `has_major`
    has_indie,        \* local `has_indie`
    score,            \* local `score`
    level             \* local `level`

callvars == <<track, pc, matches, works_dict, mlc_works, cand, calls>>

batchvars == <<tracks, idx, bpc, all_matches, all_works, returns>>

titlevars == <<tpc, tc_title1, tc_title2, tc_similarity, tc_normalized1, tc_normalized2>>

corevars == <<callvars, mlc, batchvars, titlevars>>

durationvars == <<dpc, duration_ms, duration_seconds>>

urlvars == <<upc, url, extracted_id>>

fetchvars == <<fpc, page, fetched_works, seen_ids, total_from_api, response_data,
               attempt, backoff, responses, sleeps, http>>

procvars == <<ppc, artist_urls, run_i, results, successful, failed>>

reportvars == <<rpc, total_tracks, registered_count, pub_names, has_major, has_indie,
                score, level>>

auxvars == <<durationvars, urlvars, fetchvars, procvars, reportvars>>

vars == <<corevars, auxvars>>

\* WorkMatchIsrc with a confidence that is lowered when the titles disagree
WorkMatchIsrc_TitleWeighted(t, work) ==
    [spotify_track_id |-> t.track_id,
     spotify_title    |-> t.title,
     spotify_isrc     |-> t.isrc,
     work_id          |-> work.work_id,
     work_title       |-> work.title,
     work_source      |-> work.source,
     iswc             |-> work.iswc,
     confidence_score |->
         IF t.title = None \/ work.title = None THEN <<95, 100>>
         ELSE IF RatGeq(calculate_title_similarity(t.title, work.title),
                        TITLE_MATCH_THRESHOLD)
              THEN <<95, 100>>
              ELSE RatMul(calculate_title_similarity(t.title, work.title), <<95, 100>>),
     match_method     |-> "ISRC",
     notes            |-> "Matched via ISRC"]

\* WorkMatch(...) of strategy 1
WorkMatchIsrc(t, work) ==
    [spotify_track_id |-> t.track_id,
     spotify_title    |-> t.title,
     spotify_isrc     |-> t.isrc,
     work_id          |-> work.work_id,
     work_title       |-> work.title,
     work_source      |-> work.source,
     iswc             |-> work.iswc,
     confidence_score |-> <<95, 100>>,
     match_method     |-> "ISRC",
     notes            |-> "Matched via ISRC"]

\* WorkMatchTitle without the 0.85 penalty
WorkMatchTitle_NoPenalty(t, work, similarity) ==
    [spotify_track_id |-> t.track_id,
     spotify_title    |-> t.title,
     spotify_isrc     |-> t.isrc,
     work_id          |-> work.work_id,
     work_title       |-> work.title,
     work_source      |-> work.source,
     iswc             |-> work.iswc,
     confidence_score |-> similarity,
     match_method     |-> "Title+Artist",
     notes            |-> "Title similarity"]

\* WorkMatchTitle with the factor 0.95 of strategy 1 in place of 0.85
WorkMatchTitle_IsrcFactor(t, work, similarity) ==
    [spotify_track_id |-> t.track_id,
     spotify_title    |-> t.title,
     spotify_isrc     |-> t.isrc,
     work_id          |-> work.work_id,
     work_title       |-> work.title,
     work_source      |-> work.source,
     iswc             |-> work.iswc,
     confidence_score |-> RatMul(similarity, <<95, 100>>),
     match_method     |-> "Title+Artist",
     notes            |-> "Title similarity"]

\* WorkMatch(...) of strategy 2
WorkMatchTitle(t, work, similarity) ==
    [spotify_track_id |-> t.track_id,
     spotify_title    |-> t.title,
     spotify_isrc     |-> t.isrc,
     work_id          |-> work.work_id,
     work_title       |-> work.title,
     work_source      |-> work.source,
     iswc             |-> work.iswc,
     confidence_score |-> RatMul(similarity, <<85, 100>>),
     match_method     |-> "Title+Artist",
     notes            |-> "Title similarity"]

\* body of the strategy 1 loop for one raw_work; st = [matches, works_dict]
IsrcBody(t, st, raw_work) ==
    LET work == parse_work(raw_work)
    IN  [matches    |-> Append(st.matches, WorkMatchIsrc(t, work)),
         works_dict |-> DictSet(st.works_dict, work.work_id, work)]

\* HasIsrc as `if track.isrc is not None:`
HasIsrc_NotNone(t) == t.isrc # None

\* `if track.isrc:`
HasIsrc(t) == Truthy(t.isrc)

\* TitleGate as `if not matches:`
TitleGate_OnlyWhenEmpty(ms) == ms = <<>>

\* `if not matches or len(matches) < 2`
TitleGate(ms) == ms = <<>> \/ Len(ms) < 2

\* TitleBody without the threshold test
TitleBody_NoThreshold(t, st, raw_work) ==
    LET work == parse_work(raw_work)
        similarity == calculate_title_similarity(t.title, work.title)
    IN  IF \E n \in 1..Len(st.matches) : st.matches[n].work_id = work.work_id
        THEN st
        ELSE [matches    |-> Append(st.matches, WorkMatchTitle(t, work, similarity)),
              works_dict |-> DictSet(st.works_dict, work.work_id, work)]

\* TitleBody without the `any(m.work_id == work.work_id ...)` test
TitleBody_NoDedup(t, st, raw_work) ==
    LET work == parse_work(raw_work)
        similarity == calculate_title_similarity(t.title, work.title)
    IN  IF RatGeq(similarity, TITLE_MATCH_THRESHOLD)
        THEN [matches    |-> Append(st.matches, WorkMatchTitle(t, work, similarity)),
              works_dict |-> DictSet(st.works_dict, work.work_id, work)]
        ELSE st

\* TitleBody that stores the work before the threshold test, as strategy 1 does
TitleBody_MapBeforeTest(t, st, raw_work) ==
    LET work == parse_work(raw_work)
        similarity == calculate_title_similarity(t.title, work.title)
        stored == DictSet(st.works_dict, work.work_id, work)
    IN  IF RatGeq(similarity, TITLE_MATCH_THRESHOLD)
        THEN IF \E n \in 1..Len(st.matches) : st.matches[n].work_id = work.work_id
             THEN [matches |-> st.matches, works_dict |-> stored]
             ELSE [matches    |-> Append(st.matches, WorkMatchTitle(t, work, similarity)),
                   works_dict |-> stored]
        ELSE [matches |-> st.matches, works_dict |-> stored]

\* body of the strategy 2 loop for one raw_work whose titles are strings
TitleBody(t, st, raw_work) ==
    LET work == parse_work(raw_work)
        similarity == calculate_title_similarity(t.title, work.title)
    IN  IF RatGeq(similarity, TITLE_MATCH_THRESHOLD)
        THEN IF \E n \in 1..Len(st.matches) : st.matches[n].work_id = work.work_id
             THEN st
             ELSE [matches    |-> Append(st.matches, WorkMatchTitle(t, work, similarity)),
                   works_dict |-> DictSet(st.works_dict, work.work_id, work)]
        ELSE st

\* title.lower() on None raises AttributeError
TitleRaises(t, raw_work) == t.title = None \/ parse_work(raw_work).title = None

\* InsertDesc that puts m in front of the records of equal confidence
InsertDesc_BeforeEqual(sorted, m) ==
    LET ahead == {n \in 0..Len(sorted) :
                     \A k \in 1..n : RatLess(m.confidence_score, sorted[k].confidence_score)}
        n == CHOOSE x \in ahead : \A y \in ahead : x >= y
    IN  SubSeq(sorted, 1, n) \o <<m>> \o SubSeq(sorted, n + 1, Len(sorted))

\* insert m behind every record whose confidence is not smaller
InsertDesc(sorted, m) ==
    LET ahead == {n \in 0..Len(sorted) :
                     \A k \in 1..n : RatGeq(sorted[k].confidence_score, m.confidence_score)}
        n == CHOOSE x \in ahead : \A y \in ahead : x >= y
    IN  SubSeq(sorted, 1, n) \o <<m>> \o SubSeq(sorted, n + 1, Len(sorted))

RECURSIVE SortFrom(_, _, _)
SortFrom(ms, k, sorted) ==
    IF k > Len(ms) THEN sorted ELSE SortFrom(ms, k + 1, InsertDesc(sorted, ms[k]))

\* matches.sort(key=lambda m: m.confidence_score, reverse=True): stable
SortByConfidence(ms) == SortFrom(ms, 1, <<>>)

\* match_track is not called from match_all_tracks
NoBatch ==
    /\ tracks = <<>>
    /\ idx = 1
    /\ bpc = "in_call"
    /\ all_matches = <<>>
    /\ all_works = EmptyDict
    /\ returns = <<>>

\* test_title_normalization does not run
NoTitleTest ==
    /\ tpc = "idle"
    /\ tc_title1 = <<>>
    /\ tc_title2 = <<>>
    /\ tc_similarity = <<0, 1>>
    /\ tc_normalized1 = <<>>
    /\ tc_normalized2 = <<>>

\* no track property is read
NoDuration ==
    /\ dpc = "idle"
    /\ duration_ms = 0
    /\ duration_seconds = None

\* test_url_extraction does not run
NoUrl ==
    /\ upc = "idle"
    /\ url = <<>>
    /\ extracted_id = None

\* a parsed JSON body: a list (kind "list") or a dict (kind "dict") whose
\* first key of content/data/results/works is `key` ("other": none of them
\* but some key holds `items`; "none": no key holds a list), with its total
\* (totalElements or total) as <<n>>, or <<>> when the dict has none
Body(kind, key, items, total) == [kind |-> kind, key |-> key, items |-> items, total |-> total]

\* Python's None where a body or a total is expected
NoBody == Body("None", "none", <<>>, <<>>)

NoTotal == <<>>

\* fetch_all_works does not run
NoFetch ==
    /\ fpc = "idle"
    /\ page = 0
    /\ fetched_works = <<>>
    /\ seen_ids = {}
    /\ total_from_api = NoTotal
    /\ response_data = NoBody
    /\ attempt = 0
    /\ backoff = 1
    /\ responses = <<>>
    /\ sleeps = <<>>
    /\ http = {}

\* process_artists_batch does not run
NoProc ==
    /\ ppc = "idle"
    /\ artist_urls = <<>>
    /\ run_i = 1
    /\ results = <<>>
    /\ successful = 0
    /\ failed = 0

\* generate_ar_report does not run
NoReport ==
    /\ rpc = "idle"
    /\ total_tracks = 0
    /\ registered_count = 0
    /\ pub_names = {}
    /\ has_major = FALSE
    /\ has_indie = FALSE
    /\ score = 0
    /\ level = "none"

\* the programs outside the matcher do not run
NoAux == NoDuration /\ NoUrl /\ NoFetch /\ NoProc /\ NoReport

\* the matcher and its test do not run
NoCore ==
    /\ track = None
    /\ pc = "idle"
    /\ matches = <<>>
    /\ works_dict = EmptyDict
    /\ mlc_works = <<>>
    /\ cand = 1
    /\ calls = <<>>
    /\ mlc = {}
    /\ tracks = <<>>
    /\ idx = 1
    /\ bpc = "idle"
    /\ all_matches = <<>>
    /\ all_works = EmptyDict
    /\ returns = <<>>
    /\ NoTitleTest

\* one call match_track(track)
Init ==
    /\ track \in TrackPool
    /\ pc = "strategy1"
    /\ matches = <<>>
    /\ works_dict = EmptyDict
    /\ mlc_works = <<>>
    /\ cand = 1
    /\ calls = <<>>
    /\ mlc = Outcomes
    /\ NoBatch
    /\ NoTitleTest
    /\ NoAux

\* `if track.isrc:` true: mlc_works = search_by_isrc(track.isrc)
SearchByIsrc ==
    /\ pc = "strategy1"
    /\ HasIsrc(track)
    /\ \E outcome \in mlc :
          /\ mlc_works' = search_by_isrc(outcome)
          /\ calls' = Append(calls, [fn |-> "search_by_isrc", args |-> <<track.isrc>>,
                                     status |-> outcome.status,
                                     result |-> search_by_isrc(outcome)])
    /\ cand' = 1
    /\ pc' = "isrc_loop"
    /\ UNCHANGED <<track, matches, works_dict>>
    /\ UNCHANGED <<mlc, batchvars, titlevars, auxvars>>

\* `if track.isrc:` false
SkipIsrc ==
    /\ pc = "strategy1"
    /\ ~HasIsrc(track)
    /\ pc' = "strategy2"
    /\ UNCHANGED <<track, matches, works_dict, mlc_works, cand, calls>>
    /\ UNCHANGED <<mlc, batchvars, titlevars, auxvars>>

\* one iteration of `for raw_work in mlc_works` of strategy 1
IsrcCandidate ==
    /\ pc = "isrc_loop"
    /\ cand <= Len(mlc_works)
    /\ LET st == IsrcBody(track, [matches |-> matches, works_dict |-> works_dict],
                          mlc_works[cand])
       IN  /\ matches' = st.matches
           /\ works_dict' = st.works_dict
    /\ cand' = cand + 1
    /\ UNCHANGED <<track, pc, mlc_works, calls>>
    /\ UNCHANGED <<mlc, batchvars, titlevars, auxvars>>

\* the strategy 1 loop is exhausted
IsrcLoopEnd ==
    /\ pc = "isrc_loop"
    /\ cand > Len(mlc_works)
    /\ pc' = "strategy2"
    /\ UNCHANGED <<track, matches, works_dict, mlc_works, cand, calls>>
    /\ UNCHANGED <<mlc, batchvars, titlevars, auxvars>>

\* gate true: mlc_works = search_by_title(track.title, artist)
SearchByTitle ==
    /\ pc = "strategy2"
    /\ TitleGate(matches)
    /\ LET artist == IF Truthy(track.artists) THEN track.artists[1] ELSE None
       IN  \E outcome \in mlc :
              /\ mlc_works' = search_by_title(outcome)
              /\ calls' = Append(calls, [fn |-> "search_by_title",
                                         args |-> <<track.title, artist>>,
                                         status |-> outcome.status,
                                         result |-> search_by_title(outcome)])
    /\ cand' = 1
    /\ pc' = "title_loop"
    /\ UNCHANGED <<track, matches, works_dict>>
    /\ UNCHANGED <<mlc, batchvars, titlevars, auxvars>>

\* gate false: strategy 2 is skipped
SkipTitle ==
    /\ pc = "strategy2"
    /\ ~TitleGate(matches)
    /\ pc' = "sort"
    /\ UNCHANGED <<track, matches, works_dict, mlc_works, cand, calls>>
    /\ UNCHANGED <<mlc, batchvars, titlevars, auxvars>>

\* one iteration of `for raw_work in mlc_works` of strategy 2
TitleCandidate ==
    /\ pc = "title_loop"
    /\ cand <= Len(mlc_works)
    /\ IF TitleRaises(track, mlc_works[cand])
       THEN /\ pc' = "raised"
            /\ UNCHANGED <<matches, works_dict, cand>>
       ELSE LET st == TitleBody(track, [matches |-> matches, works_dict |-> works_dict],
                                mlc_works[cand])
            IN  /\ matches' = st.matches
                /\ works_dict' = st.works_dict
                /\ cand' = cand + 1
                /\ pc' = pc
    /\ UNCHANGED <<track, mlc_works, calls>>
    /\ UNCHANGED <<mlc, batchvars, titlevars, auxvars>>

\* the strategy 2 loop is exhausted
TitleLoopEnd ==
    /\ pc = "title_loop"
    /\ cand > Len(mlc_works)
    /\ pc' = "sort"
    /\ UNCHANGED <<track, matches, works_dict, mlc_works, cand, calls>>
    /\ UNCHANGED <<mlc, batchvars, titlevars, auxvars>>

\* matches.sort(...); return matches, works_dict
SortAndReturn ==
    /\ pc = "sort"
    /\ matches' = SortByConfidence(matches)
    /\ pc' = "done"
    /\ UNCHANGED <<track, works_dict, mlc_works, cand, calls>>
    /\ UNCHANGED <<mlc, batchvars, titlevars, auxvars>>

Next ==
    \/ SearchByIsrc
    \/ SkipIsrc
    \/ IsrcCandidate
    \/ IsrcLoopEnd
    \/ SearchByTitle
    \/ SkipTitle
    \/ TitleCandidate
    \/ TitleLoopEnd
    \/ SortAndReturn

Spec == Init /\ [][Next]_vars

(***************************************************************************)
(* WorkMatcher.match_all_tracks                                            *)
(***************************************************************************)

\* longest list of recordings given to match_all_tracks
MaxTracks == 2

Digit == <<"1", "2", "3", "4", "5", "6", "7", "8", "9">>

\* the k-th recording of a batch
BatchTrack(k, isrc) ==
    [track_id |-> <<"t", Digit[k]>>, title |-> Melody, artists |-> <<Ann>>, isrc |-> isrc]

\* the lists `tracks`: distinct recordings, with or without an isrc
BatchTracks ==
    UNION {{[k \in 1..n |-> BatchTrack(k, codes[k])] : codes \in [1..n -> {None, CodeU1}]} :
              n \in 0..MaxTracks}

\* what a POST can do during a batch: fail (also with an HTTP error status
\* whose body lists a work), or answer with one of a few lists
BatchOutcomes ==
    { [status |-> "error", works |-> <<>>],
      [status |-> "error", works |-> <<Raw(Absent, W1, Absent, MelodyLive, CodeU1)>>],
      [status |-> "ok", works |-> <<>>],
      [status |-> "ok", works |-> <<Raw(Absent, W1, Absent, MelodyLive, CodeU1)>>],
      [status |-> "ok", works |-> <<Raw(W1, Absent, Absent, Melody, CodeX9)>>],
      [status |-> "ok", works |-> <<Raw(Absent, W1, Absent, MelodyLive, CodeU1),
                                    Raw(Absent, Absent, W2, Melodys, Absent)>>],
      [status |-> "ok", works |-> <<Raw(Absent, W2, Absent, None, Absent)>>] }

\* Extend that leaves out the records of a work some earlier record names
Extend_SkipKnownWorks(list, more) ==
    list \o SelectSeq(more, LAMBDA m :
                         \A n \in 1..Len(list) : list[n].work_id # m.work_id)

\* list.extend(more)
Extend(list, more) == list \o more

\* DictUpdate as `all_works = works`
DictUpdate_Replace(d, e) == e

\* d.update(e)
DictUpdate(d, e) ==
    [x \in DOMAIN d \cup DOMAIN e |-> IF x \in DOMAIN e THEN e[x] ELSE d[x]]

\* match_all_tracks(tracks)
InitBatch ==
    /\ tracks \in BatchTracks
    /\ idx = 1
    /\ bpc = "loop"
    /\ all_matches = <<>>
    /\ all_works = EmptyDict
    /\ returns = <<>>
    /\ track = None
    /\ pc = "idle"
    /\ matches = <<>>
    /\ works_dict = EmptyDict
    /\ mlc_works = <<>>
    /\ cand = 1
    /\ calls = <<>>
    /\ mlc = BatchOutcomes
    /\ NoTitleTest
    /\ NoAux

\* `for i, track in enumerate(tracks, 1)`: the call self.match_track(track)
CallMatchTrack ==
    /\ bpc = "loop"
    /\ idx <= Len(tracks)
    /\ track' = tracks[idx]
    /\ pc' = "strategy1"
    /\ matches' = <<>>
    /\ works_dict' = EmptyDict
    /\ mlc_works' = <<>>
    /\ cand' = 1
    /\ calls' = <<>>
    /\ bpc' = "in_call"
    /\ UNCHANGED <<tracks, idx, all_matches, all_works, returns, mlc, titlevars, auxvars>>

\* matches, works = <returned pair>; all_matches.extend(matches)
ExtendMatches ==
    /\ bpc = "in_call"
    /\ pc = "done"
    /\ returns' = Append(returns, [matches |-> matches, works |-> works_dict])
    /\ all_matches' = Extend(all_matches, matches)
    /\ bpc' = "update"
    /\ UNCHANGED <<tracks, idx, all_works, callvars, mlc, titlevars, auxvars>>

\* all_works.update(works); the prints and the sleep; next iteration
UpdateWorks ==
    /\ bpc = "update"
    /\ all_works' = DictUpdate(all_works, works_dict)
    /\ idx' = idx + 1
    /\ bpc' = "loop"
    /\ UNCHANGED <<tracks, all_matches, returns, callvars, mlc, titlevars, auxvars>>

\* the loop is exhausted: return all_matches, all_works
ReturnAll ==
    /\ bpc = "loop"
    /\ idx > Len(tracks)
    /\ bpc' = "returned"
    /\ UNCHANGED <<tracks, idx, all_matches, all_works, returns, callvars, mlc, titlevars, auxvars>>

NextBatch ==
    \/ CallMatchTrack
    \/ SearchByIsrc
    \/ SkipIsrc
    \/ IsrcCandidate
    \/ IsrcLoopEnd
    \/ SearchByTitle
    \/ SkipTitle
    \/ TitleCandidate
    \/ TitleLoopEnd
    \/ SortAndReturn
    \/ ExtendMatches
    \/ UpdateWorks
    \/ ReturnAll

SpecBatch == InitBatch /\ [][NextBatch]_vars

(***************************************************************************)
(* test_title_normalization (scripts/test_tool.py): for each test case the *)
(* similarity of the two titles, then the two normalized titles            *)
(***************************************************************************)

MaxTitleLen == 3

TitleLetters == {"a", "b", "c"}

\* the plain titles
Words == UNION {[1..n -> TitleLetters] : n \in 0..MaxTitleLen}

UpperChar(c) ==
    IF \E n \in 1..26 : LowerCase[n] = c
    THEN UpperCase[CHOOSE n \in 1..26 : LowerCase[n] = c]
    ELSE c

Upper(s) == [n \in 1..Len(s) |-> UpperChar(s[n])]

Feat == <<" ", "(", "f", "e", "a", "t", ".", " ", "B", "o", ")">>

Remastered == <<" ", "-", " ", "R", "e", "m", "a", "s", "t", "e", "r", "e", "d">>

\* a title as releases decorate it: other case, featured artist, remaster
\* suffix, a parenthesis that spans a line break
Variants(w) ==
    {w, Upper(w), w \o Feat, w \o Remastered, <<"(">> \o w \o <<"\n", ")">>}

\* test_cases: (title1, title2), title1 decorated and title2 plain
TestCases == {<<v, w>> : v \in UNION {Variants(u) : u \in Words}, w \in Words}

InitTitles ==
    /\ \E tc \in TestCases : tc_title1 = tc[1] /\ tc_title2 = tc[2]
    /\ tpc = "similarity"
    /\ tc_similarity = <<0, 1>>
    /\ tc_normalized1 = <<>>
    /\ tc_normalized2 = <<>>
    /\ track = None
    /\ pc = "idle"
    /\ matches = <<>>
    /\ works_dict = EmptyDict
    /\ mlc_works = <<>>
    /\ cand = 1
    /\ calls = <<>>
    /\ mlc = {}
    /\ tracks = <<>>
    /\ idx = 1
    /\ bpc = "idle"
    /\ all_matches = <<>>
    /\ all_works = EmptyDict
    /\ returns = <<>>
    /\ NoAux

\* similarity = matcher.calculate_title_similarity(title1, title2)
CalculateSimilarity ==
    /\ tpc = "similarity"
    /\ tc_similarity' = calculate_title_similarity(tc_title1, tc_title2)
    /\ tpc' = "normalize"
    /\ UNCHANGED <<tc_title1, tc_title2, tc_normalized1, tc_normalized2>>
    /\ UNCHANGED <<callvars, mlc, batchvars, auxvars>>

\* normalized1 = matcher._normalize_title(title1), and the same for title2
NormalizeTitles ==
    /\ tpc = "normalize"
    /\ tc_normalized1' = _normalize_title(tc_title1)
    /\ tc_normalized2' = _normalize_title(tc_title2)
    /\ tpc' = "checked"
    /\ UNCHANGED <<tc_title1, tc_title2, tc_similarity>>
    /\ UNCHANGED <<callvars, mlc, batchvars, auxvars>>

NextTitles == CalculateSimilarity \/ NormalizeTitles

SpecTitles == InitTitles /\ [][NextTitles]_vars

(***************************************************************************)
(* SpotifyTrack.duration_seconds                                           *)
(***************************************************************************)

MaxDurationMs == 2500

\* the duration of test_spotify_track_creation
TestDurationMs == 198973

\* duration_seconds rounding to the nearest second
DurationSeconds_Rounded(ms) == (ms + 500) \div 1000

\* `return self.duration_ms // 1000`
DurationSeconds(ms) == ms \div 1000

\* SpotifyTrack(..., duration_ms=...)
InitDuration ==
    /\ dpc = "created"
    /\ duration_ms \in (0..MaxDurationMs) \cup {TestDurationMs}
    /\ duration_seconds = None
    /\ NoCore
    /\ NoProc
    /\ NoReport
    /\ NoUrl
    /\ NoFetch

\* track.duration_seconds
ReadDurationSeconds ==
    /\ dpc = "created"
    /\ duration_seconds' = DurationSeconds(duration_ms)
    /\ dpc' = "read"
    /\ UNCHANGED duration_ms
    /\ UNCHANGED <<corevars, urlvars, fetchvars, procvars, reportvars>>

NextDuration == ReadDurationSeconds

SpecDuration == InitDuration /\ [][NextDuration]_vars

(***************************************************************************)
(* SpotifyClient.extract_artist_id                                         *)
(***************************************************************************)

Digits == <<"0", "1", "2", "3", "4", "5", "6", "7", "8", "9">>

\* [a-zA-Z0-9]
IsAlnum(c) ==
    \/ \E n \in 1..26 : c = LowerCase[n] \/ c = UpperCase[n]
    \/ \E n \in 1..10 : c = Digits[n]

\* first position q >= p that is past the end of s or holds no [a-zA-Z0-9]
\* (the end of a greedy [a-zA-Z0-9]+ that starts at p)
AlnumEnd(s, p) ==
    CHOOSE q \in p..(Len(s) + 1) :
        /\ (q = Len(s) + 1 \/ ~IsAlnum(s[q]))
        /\ \A r \in p..(q - 1) : IsAlnum(s[r])

\* re.match in place of re.search: the literal must start the string
SearchGroup_AtStart(s, lit) ==
    IF LitAt(s, 1, lit) /\ Len(lit) < Len(s) /\ IsAlnum(s[Len(lit) + 1])
    THEN SubSeq(s, Len(lit) + 1, AlnumEnd(s, Len(lit) + 1) - 1)
    ELSE None

\* re.search(lit + '([a-zA-Z0-9]+)', s): group 1 of the leftmost match, or None
SearchGroup(s, lit) ==
    LET starts == {p \in 1..Len(s) :
                      /\ LitAt(s, p, lit)
                      /\ p + Len(lit) <= Len(s)
                      /\ IsAlnum(s[p + Len(lit)])}
    IN  IF starts = {} THEN None
        ELSE LET p == CHOOSE x \in starts : \A y \in starts : x <= y
                 g == p + Len(lit)
             IN  SubSeq(s, g, AlnumEnd(s, g) - 1)

\* re.search('^([a-zA-Z0-9]{22})$', s): '$' matches at the end and before a
\* line break that ends the string
DirectId(s) ==
    IF /\ (Len(s) = 22 \/ (Len(s) = 23 /\ s[23] = "\n"))
       /\ \A n \in 1..22 : IsAlnum(s[n])
    THEN SubSeq(s, 1, 22)
    ELSE None

ArtistPath == <<"s", "p", "o", "t", "i", "f", "y", ".", "c", "o", "m", "/", "a", "r", "t", "i", "s", "t", "/">>

OpenArtistPath == <<"o", "p", "e", "n", ".", "s", "p", "o", "t", "i", "f", "y", ".", "c", "o", "m", "/", "a", "r", "t", "i", "s", "t", "/">>

\* the three patterns in order, the first that matches decides
extract_artist_id(u) ==
    IF SearchGroup(u, ArtistPath) # None THEN SearchGroup(u, ArtistPath)
    ELSE IF SearchGroup(u, OpenArtistPath) # None THEN SearchGroup(u, OpenArtistPath)
    ELSE DirectId(u)

MaxIdLen == 2

IdChars == {"a", "Z", "7"}

\* the identifier of test_urls
TestArtistId == <<"3", "T", "V", "X", "t", "A", "s", "R", "1", "I", "n", "u", "m", "w", "j", "4", "7", "2", "S", "9", "r", "4">>

Ids == UNION {[1..n -> IdChars] : n \in 0..MaxIdLen} \cup {TestArtistId}

UrlPrefixes == {<<>>, <<"h", "t", "t", "p", "s", ":", "/", "/">>, <<"h", "t", "t", "p", "s", ":", "/", "/", "o", "p", "e", "n", ".">>}

UrlSuffixes == {<<>>, <<"?", "s", "i", "=", "a", "b", "c", "1", "2", "3">>, <<"/", "a", "l", "b", "u", "m", "s">>, <<"\n">>}

\* test_urls: artist URLs, bare identifiers and what is neither
TestUrls ==
    {p \o ArtistPath \o i \o x : p \in UrlPrefixes, i \in Ids, x \in UrlSuffixes}
    \cup {i \o x : i \in Ids, x \in UrlSuffixes}
    \cup {<<"h", "t", "t", "p", "s", ":", "/", "/", "o", "p", "e", "n", ".", "s", "p", "o", "t", "i", "f", "y", ".", "c", "o", "m", "/", "a", "l", "b", "u", "m", "/">> \o i : i \in Ids}
    \cup {SubSeq(TestArtistId, 1, 21), TestArtistId \o <<"x">>}

InitUrl ==
    /\ upc = "url"
    /\ url \in TestUrls
    /\ extracted_id = None
    /\ NoCore
    /\ NoProc
    /\ NoReport
    /\ NoDuration
    /\ NoFetch

\* extracted_id = client.extract_artist_id(url)
ExtractArtistId ==
    /\ upc = "url"
    /\ extracted_id' = extract_artist_id(url)
    /\ upc' = "extracted"
    /\ UNCHANGED url
    /\ UNCHANGED <<corevars, durationvars, fetchvars, procvars, reportvars>>

NextUrl == ExtractArtistId

SpecUrl == InitUrl /\ [][NextUrl]_vars

(***************************************************************************)
(* make_request_with_retry (scripts/fetch_black17_publisher_works.py)      *)
(***************************************************************************)

MAX_RETRIES == 5

INITIAL_BACKOFF == 1

\* `response.status_code in (429, 500, 502, 503, 504)`
RETRY_STATUSES == {429, 500, 502, 503, 504}

\* in place of a status: request.post raised requests.exceptions.RequestException
\* (response.json() of a body that is no JSON raises one too)
RequestException == 0

\* the request is tried again after this outcome, if attempts are left
Retried(status) == status \in RETRY_STATUSES \/ status = RequestException

\* `backoff += 1` in place of `backoff *= 2`
NextBackoff_Linear(b) == b + 1

\* `backoff *= 2`
NextBackoff(b) == b * 2

\* make_request_with_retry(...) is called: `backoff = INITIAL_BACKOFF` and the
\* first `attempt` of `range(MAX_RETRIES)`
EnterRetryLoop ==
    /\ attempt' = 0
    /\ backoff' = INITIAL_BACKOFF
    /\ responses' = <<>>
    /\ sleeps' = <<>>
    /\ fpc' = "post"

\* items per page asked of the API: 200 in the source, scaled down here
PAGE_SIZE == 2

\* page numbers above MaxPage are kept as MaxPage: fetch_all_works only sends
\* `page` to the API, whose answers are arbitrary
MaxPage == 2

\* most works without identifier the API delivers in one run
MaxNoId == 1

\* a work of a page, with the identifier keys the loop reads
FetchWork(property_id, id) == [property_id |-> property_id, id |-> id, work_id |-> Absent]

FetchWorks == {FetchWork(W1, Absent), FetchWork(Absent, W2), FetchWork(Absent, Absent)}

\* work.get("property_id") or work.get("id") or work.get("work_id")
FetchWorkId(work) ==
    IF Truthy(Get(work.property_id)) THEN work.property_id
    ELSE IF Truthy(Get(work.id)) THEN work.id
    ELSE Get(work.work_id)

\* works of a list that have no identifier
NoIdCount(list) == Cardinality({n \in 1..Len(list) : FetchWorkId(list[n]) = None})

\* the API has this body to deliver: its works without identifier are not
\* more than MaxNoId in the whole run
Deliverable(body) == NoIdCount(fetched_works) + NoIdCount(body.items) <= MaxNoId

\* status 200: `return response.json()`
PostSuccess ==
    /\ fpc = "post"
    /\ attempt < MAX_RETRIES
    /\ \E o \in http :
          /\ o.status = 200
          /\ Deliverable(o.body)
          /\ responses' = Append(responses, o.status)
          /\ response_data' = o.body
    /\ fpc' = "got"
    /\ UNCHANGED <<page, fetched_works, seen_ids, total_from_api, attempt, backoff, sleeps, http>>
    /\ UNCHANGED <<corevars, durationvars, urlvars, procvars, reportvars>>

\* status 429/500/502/503/504 or a RequestException, attempts left:
\* time.sleep(backoff); backoff *= 2; continue
PostRetry ==
    /\ fpc = "post"
    /\ attempt < MAX_RETRIES - 1
    /\ \E o \in http :
          /\ Retried(o.status)
          /\ responses' = Append(responses, o.status)
    /\ sleeps' = Append(sleeps, backoff)
    /\ backoff' = NextBackoff(backoff)
    /\ attempt' = attempt + 1
    /\ UNCHANGED <<fpc, page, fetched_works, seen_ids, total_from_api, response_data, http>>
    /\ UNCHANGED <<corevars, durationvars, urlvars, procvars, reportvars>>

\* the same outcomes on the last attempt: `return None`
PostGiveUp ==
    /\ fpc = "post"
    /\ attempt < MAX_RETRIES
    /\ ~(attempt < MAX_RETRIES - 1)
    /\ \E o \in http :
          /\ Retried(o.status)
          /\ responses' = Append(responses, o.status)
    /\ response_data' = NoBody
    /\ fpc' = "got"
    /\ UNCHANGED <<page, fetched_works, seen_ids, total_from_api, attempt, backoff, sleeps, http>>
    /\ UNCHANGED <<corevars, durationvars, urlvars, procvars, reportvars>>

\* any other status: `return None`
PostOtherStatus ==
    /\ fpc = "post"
    /\ attempt < MAX_RETRIES
    /\ \E o \in http :
          /\ o.status # 200
          /\ ~Retried(o.status)
          /\ responses' = Append(responses, o.status)
    /\ response_data' = NoBody
    /\ fpc' = "got"
    /\ UNCHANGED <<page, fetched_works, seen_ids, total_from_api, attempt, backoff, sleeps, http>>
    /\ UNCHANGED <<corevars, durationvars, urlvars, procvars, reportvars>>

\* every status the function tells apart, and two it does not
RetryOutcomes ==
    {[status |-> 200, body |-> Body("list", "none", <<>>, NoTotal)],
     [status |-> 200, body |-> Body("dict", "content", <<>>, <<0>>)]}
    \cup {[status |-> c, body |-> NoBody] :
             c \in RETRY_STATUSES \cup {RequestException, 400, 404}}

\* one call make_request_with_retry(BASE_URL, params, REQUEST_BODY)
InitRetry ==
    /\ fpc = "post"
    /\ page = 0
    /\ fetched_works = <<>>
    /\ seen_ids = {}
    /\ total_from_api = NoTotal
    /\ response_data = NoBody
    /\ attempt = 0
    /\ backoff = INITIAL_BACKOFF
    /\ responses = <<>>
    /\ sleeps = <<>>
    /\ http = RetryOutcomes
    /\ NoCore
    /\ NoProc
    /\ NoReport
    /\ NoDuration
    /\ NoUrl

NextRetry == PostSuccess \/ PostRetry \/ PostGiveUp \/ PostOtherStatus

SpecRetry == InitRetry /\ [][NextRetry]_vars

(***************************************************************************)
(* fetch_all_works (scripts/fetch_black17_publisher_works.py)              *)
(***************************************************************************)

\* the auto-detection leaves `works_list` None
NoWorksList(data) ==
    /\ data.kind = "dict"
    /\ data.key \notin {"content", "data", "results", "works"}
    /\ ~(data.key = "other" /\ Len(data.items) > 0)

\* the `works_list` auto-detected in response_data
WorksList(data) == data.items

\* total_from_api after the detection
TotalAfter(total, data) ==
    IF /\ data.kind = "dict"
       /\ data.key \in {"content", "data", "results", "works"}
       /\ total = NoTotal
       /\ data.total # NoTotal
    THEN data.total
    ELSE total

RECURSIVE Deduplicate(_, _, _, _)
\* the loop `for work in works_list`, from index n on: <<all_works, seen_ids>>
Deduplicate(works, seen, list, n) ==
    IF n > Len(list) THEN <<works, seen>>
    ELSE LET work == list[n]
             work_id == FetchWorkId(work)
         IN  IF Truthy(work_id) /\ work_id \notin seen
             THEN Deduplicate(Append(works, work), seen \cup {work_id}, list, n + 1)
             ELSE IF work_id = None
             THEN Deduplicate(Append(works, work), seen, list, n + 1)
             ELSE Deduplicate(works, seen, list, n + 1)

\* `if total_from_api and len(all_works) >= total_from_api`
ReachedTotal(total, works) == total # NoTotal /\ total[1] # 0 /\ Len(works) >= total[1]

\* `page += 1`
NextPage(p) == IF p < MaxPage THEN p + 1 ELSE MaxPage

FetchOutcomes ==
    {[status |-> 200, body |-> b] :
        b \in {Body("list", "none", i, NoTotal) : i \in SeqsUpTo(FetchWorks, PAGE_SIZE)}
              \cup {Body("dict", "content", i, t) :
                       i \in SeqsUpTo(FetchWorks, PAGE_SIZE), t \in {NoTotal, <<2>>}}
              \cup {Body("dict", "other", i, NoTotal) : i \in SeqsUpTo(FetchWorks, PAGE_SIZE)}
              \cup {Body("dict", "none", <<>>, NoTotal)}}
    \cup {[status |-> c, body |-> NoBody] : c \in {RequestException, 404}}

\* fetch_all_works() up to the first `while True`
InitFetch ==
    /\ fpc = "loop"
    /\ page = 0
    /\ fetched_works = <<>>
    /\ seen_ids = {}
    /\ total_from_api = NoTotal
    /\ response_data = NoBody
    /\ attempt = 0
    /\ backoff = INITIAL_BACKOFF
    /\ responses = <<>>
    /\ sleeps = <<>>
    /\ http = FetchOutcomes
    /\ NoCore
    /\ NoProc
    /\ NoReport
    /\ NoDuration
    /\ NoUrl

\* response_data = make_request_with_retry(BASE_URL, params, REQUEST_BODY)
CallRequest ==
    /\ fpc = "loop"
    /\ EnterRetryLoop
    /\ UNCHANGED <<page, fetched_works, seen_ids, total_from_api, response_data, http>>
    /\ UNCHANGED <<corevars, durationvars, urlvars, procvars, reportvars>>

\* `if response_data is None`: page += 1; continue
SkipPage ==
    /\ fpc = "got"
    /\ response_data = NoBody
    /\ page' = NextPage(page)
    /\ fpc' = "loop"
    /\ UNCHANGED <<fetched_works, seen_ids, total_from_api, response_data,
                   attempt, backoff, responses, sleeps, http>>
    /\ UNCHANGED <<corevars, durationvars, urlvars, procvars, reportvars>>

\* `if works_list is None` or `if len(works_list) == 0`: break
BreakNoItems ==
    /\ fpc = "got"
    /\ response_data # NoBody
    /\ NoWorksList(response_data) \/ WorksList(response_data) = <<>>
    /\ total_from_api' = TotalAfter(total_from_api, response_data)
    /\ fpc' = "returned"
    /\ UNCHANGED <<page, fetched_works, seen_ids, response_data,
                   attempt, backoff, responses, sleeps, http>>
    /\ UNCHANGED <<corevars, durationvars, urlvars, procvars, reportvars>>

\* a page with items: deduplicate, then break on the total or on a short
\* page, else page += 1 and the next iteration
MergePage ==
    /\ fpc = "got"
    /\ response_data # NoBody
    /\ ~NoWorksList(response_data)
    /\ WorksList(response_data) # <<>>
    /\ LET works_list == WorksList(response_data)
           total == TotalAfter(total_from_api, response_data)
           merged == Deduplicate(fetched_works, seen_ids, works_list, 1)
       IN  /\ total_from_api' = total
           /\ fetched_works' = merged[1]
           /\ seen_ids' = merged[2]
           /\ IF ReachedTotal(total, merged[1]) \/ Len(works_list) < PAGE_SIZE
              THEN fpc' = "returned" /\ page' = page
              ELSE fpc' = "loop" /\ page' = NextPage(page)
    /\ UNCHANGED <<response_data, attempt, backoff, responses, sleeps, http>>
    /\ UNCHANGED <<corevars, durationvars, urlvars, procvars, reportvars>>

NextFetch ==
    \/ CallRequest
    \/ PostSuccess
    \/ PostRetry
    \/ PostGiveUp
    \/ PostOtherStatus
    \/ SkipPage
    \/ BreakNoItems
    \/ MergePage

SpecFetch == InitFetch /\ [][NextFetch]_vars

\* the interpreter keeps running the function until it returns
SpecFetchFair == SpecFetch /\ WF_vars(NextFetch)

(***************************************************************************)
(* process_artists_batch (utils/batch_process.py): one subprocess per URL  *)
(***************************************************************************)

\* longest list of artist URLs read from the file
MaxUrls == 3

\* lines of the artists file
ArtistUrlPool ==
    { <<"s", "/", "a", "1">>,                \* ".../a1"
      <<"s", "/", "b", "2", "?", "s", "i">>,   \* ".../b2?si"
      <<"c", "3">> }                           \* a bare id

\* what subprocess.run(..., check=True) can do: return (exit status 0),
\* raise CalledProcessError (other exit status, or killed by a signal), or
\* raise another Exception (the interpreter cannot be started)
RunOutcomes == {"returned", "CalledProcessError", "Exception"}

\* s.split(sep)[-1]
LastPart(s, sep) ==
    LET at == {n \in 1..Len(s) : s[n] = sep}
    IN  IF at = {} THEN s
        ELSE SubSeq(s, (CHOOSE x \in at : \A y \in at : x >= y) + 1, Len(s))

\* s.split(sep)[0]
FirstPart(s, sep) ==
    LET at == {n \in 1..Len(s) : s[n] = sep}
    IN  IF at = {} THEN s
        ELSE SubSeq(s, 1, (CHOOSE x \in at : \A y \in at : x <= y) - 1)

\* url.split('/')[-1].split('?')[0]
ArtistIdOf(u) == FirstPart(LastPart(u, "/"), "?")

\* the dict appended for one outcome
ResultOf(u, outcome) ==
    [url       |-> u,
     artist_id |-> ArtistIdOf(u),
     status    |-> CASE outcome = "returned" -> "success"
                     [] outcome = "CalledProcessError" -> "failed"
                     [] OTHER -> "error"]

\* RecordResult with an `except Exception` branch that appends nothing
RecordResult_ErrorsDropped(rs, u, outcome) ==
    IF outcome = "Exception" THEN rs ELSE Append(rs, ResultOf(u, outcome))

\* results.append(...) of the try body and of both except branches
RecordResult(rs, u, outcome) == Append(rs, ResultOf(u, outcome))

\* sum(1 for r in results if r['status'] == 'success')
CountSuccessful(rs) == Cardinality({n \in 1..Len(rs) : rs[n].status = "success"})

\* sum(1 for r in results if r['status'] != 'success')
CountFailed(rs) == Cardinality({n \in 1..Len(rs) : rs[n].status # "success"})

InitProc ==
    /\ ppc = "loop"
    /\ artist_urls \in SeqsUpTo(ArtistUrlPool, MaxUrls)
    /\ run_i = 1
    /\ results = <<>>
    /\ successful = 0
    /\ failed = 0
    /\ NoCore
    /\ NoDuration
    /\ NoUrl
    /\ NoFetch
    /\ NoReport

\* `if not artist_urls: sys.exit(1)`
ExitNoUrls ==
    /\ ppc = "loop"
    /\ artist_urls = <<>>
    /\ ppc' = "exited"
    /\ UNCHANGED <<artist_urls, run_i, results, successful, failed>>
    /\ UNCHANGED <<corevars, durationvars, urlvars, fetchvars, reportvars>>

\* one iteration of `for i, url in enumerate(artist_urls, 1)`
RunArtist ==
    /\ ppc = "loop"
    /\ artist_urls # <<>>
    /\ run_i <= Len(artist_urls)
    /\ \E outcome \in RunOutcomes :
          results' = RecordResult(results, artist_urls[run_i], outcome)
    /\ run_i' = run_i + 1
    /\ UNCHANGED <<ppc, artist_urls, successful, failed>>
    /\ UNCHANGED <<corevars, durationvars, urlvars, fetchvars, reportvars>>

\* the loop is exhausted: the summary is printed
PrintSummary ==
    /\ ppc = "loop"
    /\ artist_urls # <<>>
    /\ run_i > Len(artist_urls)
    /\ successful' = CountSuccessful(results)
    /\ failed' = CountFailed(results)
    /\ ppc' = "summary"
    /\ UNCHANGED <<artist_urls, run_i, results>>
    /\ UNCHANGED <<corevars, durationvars, urlvars, fetchvars, reportvars>>

NextProc == ExitNoUrls \/ RunArtist \/ PrintSummary

SpecProc == InitProc /\ [][NextProc]_vars

(***************************************************************************)
(* generate_ar_report: the opportunity assessment                          *)
(***************************************************************************)

\* largest number of tracks of an artist
MaxTrackCount == 52

MAJOR_PUBLISHERS ==
    { <<"S","O","N","Y">>, <<"U","N","I","V","E","R","S","A","L">>,
      <<"W","A","R","N","E","R">>, <<"E","M","I">>, <<"B","M","G">>,
      <<"K","O","B","A","L","T">>, <<"C","O","N","C","O","R","D">>,
      <<"D","O","W","N","T","O","W","N">> }

\* values of "publisherName": a major, a name that holds a major's name,
\* another name, the empty string, null
PubNamePool ==
    { <<"e","m","i">>, <<"P","r","e","m","i","e","r">>, <<"I","n","d","i","e">>,
      <<>>, None }

\* `sub in s`
Contains(s, sub) ==
    \E n \in 0..(Len(s) - Len(sub)) : SubSeq(s, n + 1, n + Len(sub)) = sub

\* the set all_publishers after the loop: the truthy pub_name values
AllPublishers(names) == {p \in names : Truthy(p)}

\* any(any(major in pub.upper() for major in major_publishers) for pub in ...)
HasMajor(pubs) ==
    \E pub \in pubs : \E major \in MAJOR_PUBLISHERS : Contains(Upper(pub), major)

\* HasIndie without `and not has_major`
HasIndie_AnyPublisher(pubs) == pubs # {}

\* len(all_publishers) > 0 and not has_major
HasIndie(pubs) == pubs # {} /\ ~HasMajor(pubs)

\* len(all_publishers) == 0
IsSelfPublished(pubs) == pubs = {}

\* coverage_pct as an exact fraction
CoveragePct(registered, total) ==
    IF total > 0 THEN <<registered * 100, total>> ELSE <<0, 1>>

CoverageScore(coverage_pct) ==
    IF RatLess(coverage_pct, <<25, 1>>) THEN 40
    ELSE IF RatLess(coverage_pct, <<50, 1>>) THEN 30
    ELSE IF RatLess(coverage_pct, <<75, 1>>) THEN 20
    ELSE 10

PublisherScore(pubs) ==
    (IF IsSelfPublished(pubs) \/ ~HasMajor(pubs) THEN 30 ELSE 0)
    + (IF HasIndie(pubs) THEN 10 ELSE 0)

CatalogScore(total) == IF total > 50 THEN 20 ELSE IF total > 20 THEN 15 ELSE 10

OpportunityScore(registered, total, pubs) ==
    CoverageScore(CoveragePct(registered, total)) + PublisherScore(pubs) + CatalogScore(total)

OpportunityLevel(s) == IF s >= 70 THEN "HIGH" ELSE IF s >= 50 THEN "MEDIUM" ELSE "LOW"

\* after the analysis of coverage and publishers
InitReport ==
    /\ rpc = "analysed"
    /\ total_tracks \in 0..MaxTrackCount
    /\ registered_count \in 0..total_tracks
    /\ pub_names \in SUBSET PubNamePool
    /\ has_major = FALSE
    /\ has_indie = FALSE
    /\ score = 0
    /\ level = "none"
    /\ NoCore
    /\ NoDuration
    /\ NoUrl
    /\ NoFetch
    /\ NoProc

\* has_major, has_indie, score and level are computed
AssessOpportunity ==
    /\ rpc = "analysed"
    /\ LET pubs == AllPublishers(pub_names)
           s == OpportunityScore(registered_count, total_tracks, pubs)
       IN  /\ has_major' = HasMajor(pubs)
           /\ has_indie' = HasIndie(pubs)
           /\ score' = s
           /\ level' = OpportunityLevel(s)
    /\ rpc' = "scored"
    /\ UNCHANGED <<total_tracks, registered_count, pub_names>>
    /\ UNCHANGED <<corevars, durationvars, urlvars, fetchvars, procvars>>

NextReport == AssessOpportunity

SpecReport == InitReport /\ [][NextReport]_vars

\* the interpreter runs the next statement

(***************************************************************************)
(* Vocabulary of the properties                                            *)
(***************************************************************************)

IsrcIdx == {n \in 1..Len(matches) : matches[n].match_method = "ISRC"}

TitleIdx == {n \in 1..Len(matches) : matches[n].match_method = "Title+Artist"}

IsrcCalls == {n \in 1..Len(calls) : calls[n].fn = "search_by_isrc"}

TitleCalls == {n \in 1..Len(calls) : calls[n].fn = "search_by_title"}

\* what search_by_isrc / search_by_title returned (<<>> when never called)
IsrcResult == IF IsrcCalls = {} THEN <<>> ELSE calls[CHOOSE n \in IsrcCalls : TRUE].result

TitleResult == IF TitleCalls = {} THEN <<>> ELSE calls[CHOOSE n \in TitleCalls : TRUE].result

Range(f) == {f[x] : x \in DOMAIN f}

\* str.strip()
Trim(s) ==
    LET keep == {n \in 1..Len(s) : s[n] \notin Whitespace}
    IN  IF keep = {} THEN <<>>
        ELSE SubSeq(s, CHOOSE x \in keep : \A y \in keep : x <= y,
                       CHOOSE x \in keep : \A y \in keep : x >= y)

\* both codes are present and equal after trimming
CodesEqual(recording_isrc, candidate_isrc) ==
    /\ Truthy(recording_isrc)
    /\ Truthy(candidate_isrc)
    /\ Trim(recording_isrc) = Trim(candidate_isrc)

\* the string titles of the recordings and of the payloads
TrackTitles == {t.title : t \in TrackPool} \ {None}

WorkTitles == {parse_work(raw_work).title : raw_work \in RawPool} \ {None}

\* calculate_title_similarity on those titles, evaluated once
SimilarityOf ==
    [a \in TrackTitles |-> [b \in WorkTitles |-> calculate_title_similarity(a, b)]]

\* similarity of the two titles a record carries
RecordSimilarity(m) == SimilarityOf[m.spotify_title][m.work_title]

\* candidate raw_work passes the acceptance test of the fallback
Accepted(raw_work) ==
    /\ ~TitleRaises(track, raw_work)
    /\ RatGeq(SimilarityOf[track.title][parse_work(raw_work).title], <<85, 100>>)

(***************************************************************************)
(* C1: an exact-code (ISRC) record exists only for a candidate returned by *)
(* search_by_isrc whose code is present and equal to the recording's ISRC  *)
(* after trimming; a candidate with an absent or different code yields no  *)
(* exact-code record.  match_track compares no codes: refuted.             *)
(***************************************************************************)
C1_ExactCodeOnlyForEqualCodes ==
    \A n \in IsrcIdx :
        \E raw_work \in Range(IsrcResult) :
            /\ parse_work(raw_work).work_id = matches[n].work_id
            /\ parse_work(raw_work).title = matches[n].work_title
            /\ CodesEqual(track.isrc, raw_work.isrc)

(***************************************************************************)
(* C2: every record created by the identifier strategy has confidence      *)
(* exactly 0.95 and the method tag ISRC, whatever the two titles are: the  *)
(* k-th candidate of search_by_isrc gives the k-th record, with no title   *)
(* comparison.                                                             *)
(***************************************************************************)
C2_IsrcRecordFixedConfidence ==
    /\ \A n \in IsrcIdx : RatEq(matches[n].confidence_score, <<95, 100>>)
    /\ pc \in {"isrc_loop", "strategy2"} =>
          /\ Len(matches) = (IF pc = "isrc_loop" THEN cand - 1 ELSE Len(IsrcResult))
          /\ \A n \in 1..Len(matches) :
                /\ matches[n].match_method = "ISRC"
                /\ RatEq(matches[n].confidence_score, <<95, 100>>)
                /\ matches[n].work_id = parse_work(IsrcResult[n]).work_id
                /\ matches[n].work_title = parse_work(IsrcResult[n]).title

\* an exact-code record whose titles disagree (similarity 2/11)
C2_Witness ==
    /\ pc = "done"
    /\ \E n \in IsrcIdx :
          /\ matches[n].work_title = Other
          /\ RatLess(RecordSimilarity(matches[n]), <<85, 100>>)

(***************************************************************************)
(* C3: a title-fuzzy record is never created for a candidate whose title   *)
(* similarity is below 0.85, and the confidence of every title-fuzzy       *)
(* record equals that similarity times 0.85.                               *)
(***************************************************************************)
C3_TitleFuzzyThresholdAndConfidence ==
    \A n \in TitleIdx :
        /\ RatGeq(RecordSimilarity(matches[n]), <<85, 100>>)
        /\ RatEq(matches[n].confidence_score,
                 RatMul(RecordSimilarity(matches[n]), <<85, 100>>))

\* one candidate accepted with similarity 12/13, one rejected with 2/11
C3_Witness ==
    /\ pc = "done"
    /\ \E n \in TitleIdx : RatEq(matches[n].confidence_score, <<12 * 85, 13 * 100>>)
    /\ \E raw_work \in Range(TitleResult) :
          /\ raw_work.title = Other
          /\ \A n \in 1..Len(matches) : matches[n].work_title # Other

(***************************************************************************)
(* C4: in every MatchSet each exact-code record has a confidence strictly  *)
(* greater than each title-fuzzy record, and in the returned sequence no   *)
(* title-fuzzy record precedes an exact-code record.                       *)
(***************************************************************************)
C4_MethodTiersNeverInvert ==
    /\ \A i \in IsrcIdx : \A j \in TitleIdx :
          RatLess(matches[j].confidence_score, matches[i].confidence_score)
    /\ pc = "done" => \A i \in IsrcIdx : \A j \in TitleIdx : i < j

\* a returned MatchSet with records of both methods
C4_Witness == pc = "done" /\ IsrcIdx # {} /\ TitleIdx # {}

(***************************************************************************)
(* C5 (as stated): the confidence of a title-fuzzy record never exceeds    *)
(* 0.8075.  Refuted: similarity 1.0 gives 0.85.                            *)
(***************************************************************************)
C5_CeilingIs8075 ==
    \A n \in TitleIdx : ~RatLess(<<8075, 10000>>, matches[n].confidence_score)

(***************************************************************************)
(* C5 (amended): the confidence of a title-fuzzy record never exceeds      *)
(* 0.85, the value it has when the two normalized titles are identical.    *)
(***************************************************************************)
C5_CeilingIs85 ==
    \A n \in TitleIdx : ~RatLess(<<85, 100>>, matches[n].confidence_score)

\* a title-fuzzy record at the ceiling
C5_Witness ==
    \E n \in TitleIdx :
        /\ RatEq(matches[n].confidence_score, <<85, 100>>)
        /\ matches[n].work_title = MelodyLive

(***************************************************************************)
(* C6: when one work identifier is returned for the recording by both the  *)
(* identifier search and the title search, the returned MatchSet holds     *)
(* exactly one record for it, and that record is the exact-code one.       *)
(***************************************************************************)
C6_OneRecordForWorkOfBothStrategies ==
    pc = "done" /\ IsrcCalls # {} /\ TitleCalls # {} =>
        \A a \in Range(IsrcResult) : \A b \in Range(TitleResult) :
            parse_work(a).work_id = parse_work(b).work_id =>
                /\ Cardinality({n \in 1..Len(matches) :
                                   matches[n].work_id = parse_work(a).work_id}) = 1
                /\ \A n \in 1..Len(matches) :
                      matches[n].work_id = parse_work(a).work_id =>
                          matches[n].match_method = "ISRC"

\* the same payload came back from both lookups and passes the title test
C6_Witness ==
    /\ pc = "done"
    /\ \E raw_work \in Range(IsrcResult) \cap Range(TitleResult) : Accepted(raw_work)

(***************************************************************************)
(* C7: no two records of the returned MatchSet share a work identifier,    *)
(* also when a candidate list names one work twice.  Refuted: strategy 1   *)
(* appends one record per candidate without looking at `matches`.          *)
(***************************************************************************)
C7_NoTwoRecordsShareWork ==
    pc = "done" =>
        \A i, j \in 1..Len(matches) :
            i # j => matches[i].work_id # matches[j].work_id

(***************************************************************************)
(* C8: search_by_title is called only after the identifier strategy has    *)
(* completed, and it is called if and only if that strategy produced fewer *)
(* than 2 records; with 2 or more exact-code records there is no title     *)
(* lookup and no title-fuzzy record.                                       *)
(***************************************************************************)
C8_TitleLookupIffFewerThanTwo ==
    /\ pc \in {"title_loop", "sort", "done", "raised"} =>
          (TitleCalls # {} <=> Cardinality(IsrcIdx) < 2)
    /\ TitleCalls # {} =>
          /\ TitleCalls = {Len(calls)}
          /\ pc \in {"title_loop", "sort", "done", "raised"}
          /\ Cardinality(IsrcIdx) = Len(IsrcResult)
    /\ TitleCalls = {} => TitleIdx = {}
    /\ Cardinality(IsrcIdx) >= 2 => TitleIdx = {}

\* exactly one exact-code record, so the fallback ran and added a record
C8_Witness ==
    /\ pc = "done"
    /\ Cardinality(IsrcIdx) = 1
    /\ TitleCalls # {}
    /\ TitleIdx # {}

(***************************************************************************)
(* C9: for a recording whose isrc is None or empty search_by_isrc is never *)
(* called and no exact-code record exists; for a recording with an isrc    *)
(* the identifier lookup is the first lookup made.                         *)
(***************************************************************************)
C9_IsrcLookupOnlyWithCode ==
    /\ track.isrc \in {None, <<>>} => IsrcCalls = {} /\ IsrcIdx = {}
    /\ track.isrc \notin {None, <<>>} =>
          /\ pc # "strategy1" => calls # <<>>
          /\ calls # <<>> => calls[1].fn = "search_by_isrc"

\* a recording with isrc "" matched by title alone
C9_Witness ==
    /\ pc = "done"
    /\ track.isrc = <<>>
    /\ TitleCalls # {}
    /\ TitleIdx # {}

(***************************************************************************)
(* C10: the returned sequence is sorted by confidence in non-increasing    *)
(* order and records of equal confidence keep their discovery order:       *)
(* before the sort `matches` holds the identifier-strategy records in      *)
(* candidate order followed by the title-strategy records in candidate     *)
(* order, and the sort moves record i to the position given by the number  *)
(* of records with greater confidence plus the number of earlier records   *)
(* with equal confidence.                                                  *)
(***************************************************************************)
\* position of ms[i] after a stable sort by descending confidence
StableRank(ms, i) ==
    1 + Cardinality({j \in 1..Len(ms) :
                        \/ RatLess(ms[i].confidence_score, ms[j].confidence_score)
                        \/ j < i /\ RatEq(ms[i].confidence_score, ms[j].confidence_score)})

\* first candidate of the title search that gave record m
TitleOrigin(m) ==
    LET from == {k \in 1..Len(TitleResult) :
                    /\ Accepted(TitleResult[k])
                    /\ parse_work(TitleResult[k]).work_id = m.work_id}
    IN  IF from = {} THEN 0 ELSE CHOOSE x \in from : \A y \in from : x <= y

DiscoveryOrder ==
    /\ \A i \in IsrcIdx : \A j \in TitleIdx : i < j
    /\ \A i \in IsrcIdx :
          /\ i <= Len(IsrcResult)
          /\ matches[i].work_id = parse_work(IsrcResult[i]).work_id
    /\ \A i, j \in TitleIdx :
          /\ TitleOrigin(matches[i]) > 0
          /\ matches[i].work_title = parse_work(TitleResult[TitleOrigin(matches[i])]).title
          /\ i < j => TitleOrigin(matches[i]) < TitleOrigin(matches[j])

C10_SortedDescendingStable ==
    /\ [](pc \in {"strategy1", "isrc_loop", "strategy2", "title_loop", "sort"} =>
             DiscoveryOrder)
    /\ [](pc = "done" =>
             \A i, j \in 1..Len(matches) :
                 i < j => RatGeq(matches[i].confidence_score, matches[j].confidence_score))
    /\ [][pc = "sort" =>
             /\ Len(matches') = Len(matches)
             /\ \A i \in 1..Len(matches) : matches'[StableRank(matches, i)] = matches[i]]_vars

\* two different records tie at 0.85 and stand in candidate order
C10_Witness ==
    /\ pc = "done"
    /\ \E i, j \in TitleIdx :
          /\ i < j
          /\ matches[i].work_id # matches[j].work_id
          /\ RatEq(matches[i].confidence_score, matches[j].confidence_score)
          /\ TitleOrigin(matches[i]) < TitleOrigin(matches[j])

(***************************************************************************)
(* C11: the key set of the work map of match_track is exactly the set of   *)
(* work identifiers of its records, each key maps to the Work of a         *)
(* candidate that gave a record, and the work of a rejected or skipped     *)
(* candidate is never stored.                                              *)
(***************************************************************************)
C11_WorkMapKeysAreRecordWorks ==
    /\ DOMAIN works_dict = {matches[n].work_id : n \in 1..Len(matches)}
    /\ \A w \in DOMAIN works_dict :
          /\ works_dict[w].work_id = w
          /\ \E n \in 1..Len(matches) :
                /\ matches[n].work_id = w
                /\ matches[n].work_title = works_dict[w].title

\* a returned MatchSet with a record, where the title search also returned a
\* rejected candidate whose work is not in the map
C11_Witness ==
    /\ pc = "done"
    /\ matches # <<>>
    /\ \E raw_work \in Range(TitleResult) :
          /\ ~Accepted(raw_work)
          /\ parse_work(raw_work).work_id \notin DOMAIN works_dict

(***************************************************************************)
(* Vocabulary of the batch properties                                      *)
(***************************************************************************)

RECURSIVE ConcatMatches(_, _)
\* the record sequences of the first n returns, one after the other
ConcatMatches(rs, n) ==
    IF n = 0 THEN <<>> ELSE ConcatMatches(rs, n - 1) \o rs[n].matches

RECURSIVE SumLen(_, _)
SumLen(rs, n) == IF n = 0 THEN 0 ELSE SumLen(rs, n - 1) + Len(rs[n].matches)

\* the records of all_matches that belong to recording t, in order
RecordsOf(t) == SelectSeq(all_matches, LAMBDA m : m.spotify_track_id = t.track_id)

\* every lookup made so far for the current recording failed
LookupsFailed == calls # <<>> /\ \A n \in 1..Len(calls) : calls[n].status = "error"

(***************************************************************************)
(* C12: the list match_all_tracks returns is the concatenation, in input   *)
(* order, of the sequences match_track returned for each recording: its    *)
(* length is the sum of their lengths and no record is merged or dropped   *)
(* across recordings.                                                      *)
(***************************************************************************)
C12_AllMatchesIsConcatenation ==
    bpc = "returned" =>
        /\ Len(returns) = Len(tracks)
        /\ all_matches = ConcatMatches(returns, Len(returns))
        /\ Len(all_matches) = SumLen(returns, Len(returns))
        /\ \A k \in 1..Len(tracks) : RecordsOf(tracks[k]) = returns[k].matches

\* two recordings returned a record of the same work, and both are in the list
C12_Witness ==
    /\ bpc = "returned"
    /\ \E i, j \in 1..Len(all_matches) :
          /\ i < j
          /\ all_matches[i].work_id = all_matches[j].work_id
          /\ all_matches[i].spotify_track_id # all_matches[j].spotify_track_id

(***************************************************************************)
(* C13: a work identifier already in the global work map keeps the Work    *)
(* stored first; a later recording never overwrites it.  Refuted:          *)
(* all_works.update(works) stores the Work of the later recording.         *)
(***************************************************************************)
C13_FirstWriterWins ==
    [][\A w \in DOMAIN all_works : w \in DOMAIN all_works' /\ all_works'[w] = all_works[w]]_vars

(***************************************************************************)
(* C14: at every boundary between two recordings the records of each       *)
(* processed recording are all in the global list, no record of an         *)
(* unprocessed recording is, and every record of the global list names a   *)
(* work identifier that is a key of the global work map.                   *)
(***************************************************************************)
C14_BoundaryStateIsConsistent ==
    bpc \in {"loop", "returned"} =>
        /\ Len(returns) = idx - 1
        /\ \A k \in 1..(idx - 1) : RecordsOf(tracks[k]) = returns[k].matches
        /\ \A k \in idx..Len(tracks) : RecordsOf(tracks[k]) = <<>>
        /\ \A n \in 1..Len(all_matches) : all_matches[n].work_id \in DOMAIN all_works

\* a boundary with a merged recording behind and a recording ahead
C14_Witness ==
    /\ bpc = "loop"
    /\ 1 < idx
    /\ idx <= Len(tracks)
    /\ all_matches # <<>>
    /\ DOMAIN all_works # {}

(***************************************************************************)
(* C16: a failed lookup reaches match_track as an empty candidate list and *)
(* never as an exception: while every lookup of the recording has failed   *)
(* match_track has no record, no work and has not raised; its empty result *)
(* leaves the global list and map as they were, and the only step          *)
(* match_all_tracks then takes is on to the next recording.                *)
(***************************************************************************)
C16_FailedLookupsAreNotFatal ==
    [][/\ (bpc' = "in_call" /\ LookupsFailed')
              => (pc' # "raised" /\ mlc_works' = <<>> /\ matches' = <<>> /\ works_dict' = EmptyDict)
       /\ (bpc = "in_call" /\ pc = "done" /\ LookupsFailed)
              => (all_matches' = all_matches /\ bpc' = "update")
       /\ (bpc = "update" /\ LookupsFailed)
              => (all_works' = all_works /\ all_matches' = all_matches
                  /\ idx' = idx + 1 /\ bpc' = "loop")
       /\ (bpc = "loop" /\ idx <= Len(tracks))
              => (bpc' = "in_call" /\ pc' = "strategy1" /\ track' = tracks[idx]
                  /\ all_matches' = all_matches)
      ]_vars

\* both lookups of a recording with an isrc failed, after an earlier recording
\* gave records
C16_Witness ==
    /\ bpc = "in_call"
    /\ pc = "done"
    /\ Len(calls) = 2
    /\ LookupsFailed
    /\ all_matches # <<>>

(***************************************************************************)
(* C15: evaluating a candidate in match_track never raises, whatever       *)
(* fields the recording or the payload lack (code, identifier, title       *)
(* missing, empty or null).  Refuted: a payload with "title": null makes   *)
(* _normalize_title call None.lower().                                     *)
(***************************************************************************)
C15_CandidateNeverRaises == pc # "raised"

\* no candidate of the fallback lookup reaches the threshold
NoneQualifies == \A raw_work \in Range(TitleResult) : ~Accepted(raw_work)

(***************************************************************************)
(* C17: for a recording without a code of which no title candidate reaches *)
(* similarity 0.85 (no candidate at all included), match_track ends        *)
(* without an error and returns no record and an empty work map.  Refuted  *)
(* by the raise of C15.                                                    *)
(***************************************************************************)
C17_EmptyMatchSetIsNotAnError ==
    (~HasIsrc(track) /\ TitleCalls # {} /\ pc \notin {"strategy2", "title_loop", "sort"}
        /\ NoneQualifies)
        => (pc = "done" /\ matches = <<>> /\ works_dict = EmptyDict)

(***************************************************************************)
(* C18: _normalize_title is idempotent: normalizing a normalized title     *)
(* gives the same string.  Refuted: "." matches no line break, so a        *)
(* parenthesis spanning one survives, the final split/join turns the break *)
(* into a space, and a second pass removes the parenthesis.                *)
(***************************************************************************)
C18_NormalizeIsIdempotent ==
    tpc = "checked" =>
        /\ _normalize_title(tc_normalized1) = tc_normalized1
        /\ _normalize_title(tc_normalized2) = tc_normalized2

(***************************************************************************)
(* C19: calculate_title_similarity is symmetric: the two argument orders   *)
(* give the same value, so the same answer to the 0.85 threshold.          *)
(* Refuted: SequenceMatcher picks the longest block that starts earliest   *)
(* in its first argument and the later blocks depend on that choice.       *)
(***************************************************************************)
C19_SimilarityIsSymmetric ==
    tpc \in {"normalize", "checked"} =>
        RatEq(tc_similarity, calculate_title_similarity(tc_title2, tc_title1))

(***************************************************************************)
(* C20: two titles with the same normalized string (the empty one          *)
(* included) have similarity exactly 1.0, hence titles that differ in case, *)
(* in a "(feat. ...)" annotation or in a "- Remastered" suffix; a fallback *)
(* record built with that similarity has confidence 0.85.                  *)
(***************************************************************************)
C20_EqualNormalizedTitlesScoreOne ==
    (tpc = "checked" /\ tc_normalized1 = tc_normalized2) =>
        /\ RatEq(tc_similarity, <<1, 1>>)
        /\ RatEq(WorkMatchTitle([track_id |-> <<"t", "1">>, title |-> tc_title1,
                                 artists |-> <<>>, isrc |-> None],
                                parse_work(Raw(W1, Absent, Absent, tc_title2, Absent)),
                                tc_similarity).confidence_score,
                 <<85, 100>>)

\* a title with a featured artist against the plain title
C20_Witness ==
    /\ tpc = "checked"
    /\ tc_title2 # <<>>
    /\ tc_title1 = tc_title2 \o Feat
    /\ tc_normalized1 = tc_title2
    /\ tc_normalized2 = tc_title2

(***************************************************************************)
(* Vocabulary of C21: alignments of two strings                            *)
(***************************************************************************)

\* length of the longest block of consecutive characters a and b share
LongestCommonRun(a, b) ==
    LET lens == {k \in 0..Len(a) :
                    \E i \in 1..(Len(a) - k + 1), j \in 1..(Len(b) - k + 1) :
                        SubSeq(a, i, i + k - 1) = SubSeq(b, j, j + k - 1)}
    IN  CHOOSE k \in lens : \A l \in lens : l <= k

RECURSIVE LongestCommonSubsequence(_, _, _, _)
\* most characters any order-preserving, non-overlapping alignment of
\* a[i..] and b[j..] can match
LongestCommonSubsequence(a, b, i, j) ==
    IF i > Len(a) \/ j > Len(b) THEN 0
    ELSE IF a[i] = b[j] THEN 1 + LongestCommonSubsequence(a, b, i + 1, j + 1)
    ELSE LET x == LongestCommonSubsequence(a, b, i + 1, j)
             y == LongestCommonSubsequence(a, b, i, j + 1)
         IN  IF x >= y THEN x ELSE y

\* the computed similarity is 2*M/T for a count M of matched characters that
\* an alignment of the normalized titles can have
IsAlignmentRatio ==
    LET a == tc_normalized1
        b == tc_normalized2
    IN  \E M \in LongestCommonRun(a, b)..LongestCommonSubsequence(a, b, 1, 1) :
            tc_similarity[1] * (Len(a) + Len(b)) = 2 * M * tc_similarity[2]

SimilarityInUnitInterval ==
    /\ tc_similarity[2] > 0
    /\ 0 <= tc_similarity[1]
    /\ tc_similarity[1] <= tc_similarity[2]

NoSharedCharacter == Range(tc_normalized1) \cap Range(tc_normalized2) = {}

(***************************************************************************)
(* C21 as stated: the similarity is 2*M/(len(a') + len(b')) for the        *)
(* matched characters M of an alignment of the normalized titles, lies in  *)
(* [0, 1] and is 0.0 when the normalized titles share no character.        *)
(* Refuted by two titles that both normalize to the empty string: they     *)
(* share no character and score 1.0.                                       *)
(***************************************************************************)
C21_RatioOfAlignedRuns ==
    tpc = "checked" =>
        /\ IsAlignmentRatio
        /\ SimilarityInUnitInterval
        /\ NoSharedCharacter => RatEq(tc_similarity, <<0, 1>>)

(***************************************************************************)
(* C21 amended: the same, except that two titles which both normalize to   *)
(* the empty string score 1.0.                                             *)
(***************************************************************************)
C21_RatioOfAlignedRunsUnlessBothEmpty ==
    tpc = "checked" =>
        /\ SimilarityInUnitInterval
        /\ IF tc_normalized1 = <<>> /\ tc_normalized2 = <<>>
           THEN RatEq(tc_similarity, <<1, 1>>)
           ELSE /\ IsAlignmentRatio
                /\ NoSharedCharacter => RatEq(tc_similarity, <<0, 1>>)

\* a partial alignment: some characters match, not all
C21_Witness ==
    /\ tpc = "checked"
    /\ 0 < tc_similarity[1]
    /\ tc_similarity[1] < tc_similarity[2]
    /\ Len(tc_normalized1) # Len(tc_normalized2)

(***************************************************************************)
(* Vocabulary of C22: the shape of a normalized title                      *)
(***************************************************************************)

\* an `open` character followed somewhere later by a `close` character
HasSpan(s, open, close) ==
    \E i, j \in 1..Len(s) : i < j /\ s[i] = open /\ s[j] = close

IsNormalForm(s) ==
    /\ ~HasSpan(s, "(", ")")
    /\ ~HasSpan(s, "[", "]")
    /\ Lower(s) = s
    /\ s # <<>> => (s[1] \notin Whitespace /\ s[Len(s)] \notin Whitespace)
    /\ \A n \in 1..(Len(s) - 1) : ~(s[n] \in Whitespace /\ s[n + 1] \in Whitespace)

(***************************************************************************)
(* C22: a normalized title holds no "(...)" span and no "[...]" span, is   *)
(* lowercase, starts and ends with no whitespace and holds no run of two   *)
(* whitespace characters.  Refuted: a parenthesis that spans a line break  *)
(* is not removed, and the break becomes a space inside it.                *)
(***************************************************************************)
C22_NormalizedTitleIsInNormalForm ==
    tpc = "checked" => (IsNormalForm(tc_normalized1) /\ IsNormalForm(tc_normalized2))

(***************************************************************************)
(* C23: when the title fallback runs, every candidate of the title search  *)
(* with similarity at least 0.85 whose work is not yet in the match list   *)
(* yields a title-fuzzy record; their number is not capped: there are as   *)
(* many title-fuzzy records as accepted candidates with different works    *)
(* not matched by code.  Refuted by the raise of C15, which ends the       *)
(* fallback before the candidates after a null title are evaluated.        *)
(***************************************************************************)
C23_EveryAcceptedCandidateYieldsRecord ==
    (pc \in {"done", "raised"} /\ TitleCalls # {}) =>
        LET byCode == {matches[n].work_id : n \in IsrcIdx}
            accepted == {parse_work(raw_work).work_id :
                            raw_work \in {x \in Range(TitleResult) : Accepted(x)}}
        IN  /\ {matches[n].work_id : n \in TitleIdx} = accepted \ byCode
            /\ Cardinality(TitleIdx) = Cardinality(accepted \ byCode)

(***************************************************************************)
(* C28: in the title fallback every candidate whose payload has none of    *)
(* property_id, id and work_id is parsed to the work id "", and those      *)
(* candidates are one work: of the ones that reach 0.85 no other than the  *)
(* first yields a title-fuzzy record or the entry "" of the work map, and  *)
(* the first does as soon as it is evaluated, unless "" is already the     *)
(* work of a record of the code strategy.                                  *)
(***************************************************************************)
HasNoIdentifier(raw_work) ==
    raw_work.property_id = Absent /\ raw_work.id = Absent /\ raw_work.work_id = Absent

\* positions of the accepted candidates of the fallback without identifier
AcceptedNoId ==
    {k \in 1..Len(TitleResult) :
        HasNoIdentifier(TitleResult[k]) /\ Accepted(TitleResult[k])}

FirstAcceptedNoId == CHOOSE k \in AcceptedNoId : \A j \in AcceptedNoId : k <= j

\* title-fuzzy records of the work ""
EmptyIdTitleRecords == {n \in TitleIdx : matches[n].work_id = <<>>}

C24_DurationSecondsIsFloor ==
    dpc = "read" =>
        /\ duration_seconds \in Nat
        /\ duration_seconds * 1000 <= duration_ms
        /\ duration_ms < (duration_seconds + 1) * 1000
        /\ duration_ms = TestDurationMs => duration_seconds = 198

\* a duration in the upper half of its second
C24_Witness ==
    /\ dpc = "read"
    /\ duration_ms = TestDurationMs
    /\ duration_seconds = 198

(***************************************************************************)
(* Vocabulary of C25: the shapes of an input of extract_artist_id          *)
(***************************************************************************)

IsAlnumString(s) == \A n \in 1..Len(s) : IsAlnum(s[n])

\* the identifiers i for which u is '<...>spotify.com/artist/' i, alone or
\* followed by '?' and a query
ArtistUrlIds(u) ==
    {i \in {SubSeq(u, g, h) : g \in 1..Len(u), h \in 1..Len(u)} :
        /\ i # <<>>
        /\ IsAlnumString(i)
        /\ \E p \in 1..Len(u) :
              /\ LitAt(u, p, ArtistPath \o i)
              /\ LET e == p + Len(ArtistPath) + Len(i)
                 IN  e = Len(u) + 1 \/ u[e] = "?"}

IsBareId(u) == Len(u) = 22 /\ IsAlnumString(u)

\* positions of u where 'spotify.com/artist/' and then an alphanumeric start
ArtistPathStarts(u) ==
    {p \in 1..Len(u) : \E c \in 1..Len(u) :
        /\ c = p + Len(ArtistPath)
        /\ LitAt(u, p, ArtistPath)
        /\ IsAlnum(u[c])}

C27_AtMostFiveRequestsWithDoublingWaits ==
    /\ Len(responses) <= MAX_RETRIES
    /\ MAX_RETRIES = 5
    /\ Len(sleeps) <= 4
    /\ \A n \in 1..Len(sleeps) : sleeps[n] = 2 ^ (n - 1) /\ Retried(responses[n])
    /\ fpc = "post" => Len(sleeps) = Len(responses)
    /\ fpc = "got" =>
          LET last == responses[Len(responses)]
          IN  /\ Len(sleeps) = Len(responses) - 1
              /\ IF last = 200
                 THEN \E o \in http : o.status = 200 /\ response_data = o.body
                 ELSE response_data = NoBody
              /\ Retried(last) => Len(responses) = MAX_RETRIES

\* four failures, four waits, and the fifth request succeeds
C27_Witness ==
    /\ fpc = "got"
    /\ Len(responses) = 5
    /\ responses[5] = 200
    /\ sleeps = <<1, 2, 4, 8>>
    /\ response_data # NoBody

(***************************************************************************)
(* C26: fetch_all_works terminates whatever the API does, also when the    *)
(* request for a page, or for every page, fails after all retries: the     *)
(* pagination loop reaches one of its exits.  Refuted: a failed page is    *)
(* skipped with `page += 1; continue`, so an API that keeps failing keeps  *)
(* the loop running.                                                       *)
(***************************************************************************)
C26_FetchTerminates == <>(fpc = "returned")

(***************************************************************************)
(* C29: process_artists_batch records exactly one result per artist URL,   *)
(* in input order, whatever each subprocess does: after k iterations       *)
(* results holds the results of the first k URLs, a failed or crashing run *)
(* leaves the loop ready for the next URL, and in the summary the          *)
(* successful count plus the failed count is the number of URLs.           *)
(***************************************************************************)
C29_OneResultPerUrlInOrder ==
    ppc \in {"loop", "summary"} =>
        /\ Len(results) = run_i - 1
        /\ \A k \in 1..Len(results) :
              /\ results[k].url = artist_urls[k]
              /\ results[k].status \in {"success", "failed", "error"}
        /\ (run_i <= Len(artist_urls)) => ENABLED RunArtist
        /\ ppc = "summary" =>
              /\ Len(results) = Len(artist_urls)
              /\ successful + failed = Len(artist_urls)
              /\ successful = Cardinality({k \in 1..Len(results) :
                                              results[k].status = "success"})

\* a failed and a crashed run came before a successful one
C29_Witness ==
    /\ ppc = "summary"
    /\ Len(artist_urls) = 3
    /\ results[1].status = "failed"
    /\ results[2].status = "error"
    /\ results[3].status = "success"
    /\ successful = 1
    /\ failed = 2

(***************************************************************************)
(* C30: the opportunity score of generate_ar_report is an integer from 20  *)
(* to 100 for every track count, coverage and publisher set; the level is  *)
(* HIGH exactly when score >= 70, MEDIUM exactly when 50 <= score < 70,    *)
(* LOW otherwise; has_indie and has_major are never both true.             *)
(***************************************************************************)
C30_ScoreInRangeAndLevelByThreshold ==
    rpc = "scored" =>
        /\ score \in 20..100
        /\ level \in {"HIGH", "MEDIUM", "LOW"}
        /\ level = "HIGH" <=> score >= 70
        /\ level = "MEDIUM" <=> (50 <= score /\ score < 70)
        /\ level = "LOW" <=> score < 50
        /\ ~(has_indie /\ has_major)

\* the lowest score: full coverage, a small catalog, and a major whose name
\* is found inside a longer publisher name
C30_Witness ==
    /\ rpc = "scored"
    /\ score = 20
    /\ level = "LOW"
    /\ has_major
    /\ AllPublishers(pub_names) = {<<"P","r","e","m","i","e","r">>, <<"I","n","d","i","e">>}

====
